---- MODULE Spec2Model ----
(***************************************************************************)
(* Model of the interactive SCP file transfer tool (src/src/main.rs).      *)
(*                                                                         *)
(* The program is one sequential thread: main -> get_transfer_config ->    *)
(* transfer_file -> authenticate -> chunked copy -> channel shutdown.      *)
(* Every call the program makes to an external collaborator (terminal      *)
(* prompt, filesystem, ssh2 session, scp channel, progress bar) is one     *)
(* action; the result of the call is an input drawn with \E.  Each call is *)
(* appended to the history variable ops, in program order.                 *)
(***************************************************************************)
EXTENDS Integers, Naturals, Sequences, FiniteSets, TLC

(* ---- program constants ------------------------------------------------ *)

\* let mut buffer = [0; 8192];
BufSize == 8192

\* key_paths = [id_rsa, id_ed25519, id_ecdsa]
NumKeys == 3

\* the file names of key_paths, in the order of the array
KeyNames == <<"id_rsa", "id_ed25519", "id_ecdsa">>

\* the default port of get_transfer_config
DefaultPort == 22

\* u16::MAX
MaxU16 == 65535

(* ---- bounds of the model ---------------------------------------------- *)

\* the most bytes the reads of the local file return in all
MaxBytes == 20000

\* the lengths a non-empty read may return (a full buffer, or fewer bytes)
ReadLens == {3616, BufSize}

\* the lengths the metadata of the local file may declare
FileSizes == {0, 20000}

\* the local paths that are typed, as sequences of characters:
\* "", "/tmp/a", "/", "..", "." and "/tmp/.."
LocalPaths ==
    { <<>>,
      <<"/", "t", "m", "p", "/", "a">>,
      <<"/">>,
      <<".", ".">>,
      <<".">>,
      <<"/", "t", "m", "p", "/", ".", ".">> }

\* the longest port input tried by the specification of the port prompt
MaxPortLen == 5

\* the characters of those port inputs
PortChars == {"0", "3", "5", "6", "+", "-", "a"}

\* every sequence of at most MaxPortLen of these characters
AllPortInputs == UNION {[1..n -> PortChars] : n \in 0..MaxPortLen}

\* the most short writes the channel makes during one transfer
MaxShortWrites == 2

\* what the user may type at the port prompt, as sequences of characters:
\* a port, and an input that is not a number
PortInputs == { <<"2", "2", "2", "2">>, <<"a">> }

(* ---- values ----------------------------------------------------------- *)

\* Result of an ssh2 authentication call: Ok(()), or Err(e) where e is
\* either the server rejecting the credential or a transport-level error.
AuthOutcomes == {"ok", "rejected", "transport_error"}

\* Result of any other fallible call.
IoOutcomes == {"ok", "err"}

\* One call to a collaborator: the operation, the candidate key it is about
\* (0 when none), its size argument (0 when none) and its result.
Ev(o, k, n, r) == [op |-> o, key |-> k, n |-> n, res |-> r]

VARIABLES
    pc,           \* position of the single thread in the program
    ops,          \* history: the calls made so far, in order
    local_file,   \* what was typed at the local file prompt
    port_input,   \* what was typed at the port prompt
    port,         \* config.port
    keyIdx,       \* index of key_path in the for loop of authenticate
    authRet,      \* value returned by authenticate: "none", "OkTrue", "OkFalse"
    file_size,    \* local_file.metadata()?.len()
    offset,       \* read position of local_file
    bytes_read,   \* bytes_read of the current loop iteration
    transferred,  \* the transferred-byte counter
    position,     \* progress_bar position (what the observer sees)
    finished,     \* progress_bar.finish_with_message was called
    result,       \* value returned by transfer_file: "none", "Ok", "Err"
    cause,        \* the error carried by Err: the op that failed, or "Authentication failed"
    exit,         \* how the process ended: "running", "exit0", "exit1", "panic"
    panic_by      \* what panicked: "none", "expect", "unwrap", "println", "eprintln"

vars == <<pc, ops, local_file, port_input, port, keyIdx, authRet, file_size, offset, bytes_read,
          transferred, position, finished, result, cause, exit, panic_by>>

(* ---- pure functions --------------------------------------------------- *)

Digits == <<"0", "1", "2", "3", "4", "5", "6", "7", "8", "9">>

IsDigit(c) == \E d \in 1..10 : Digits[d] = c

DigitVal(c) == (CHOOSE d \in 1..10 : Digits[d] = c) - 1

\* str::parse::<u16>: an optional leading "+", then one or more decimal
\* digits, and the value must fit 16 bits; anything else is an Err.
RECURSIVE ParseDigits(_, _)
ParseDigits(s, acc) ==
    IF s = <<>> THEN [ok |-> TRUE, val |-> acc]
    ELSE IF ~IsDigit(Head(s)) THEN [ok |-> FALSE, val |-> 0]
    ELSE IF acc * 10 + DigitVal(Head(s)) > MaxU16 THEN [ok |-> FALSE, val |-> 0]
    ELSE ParseDigits(Tail(s), acc * 10 + DigitVal(Head(s)))

ParseU16(s) ==
    IF s = <<>> THEN [ok |-> FALSE, val |-> 0]
    ELSE IF Len(s) = 1 /\ Head(s) \in {"+", "-"} THEN [ok |-> FALSE, val |-> 0]
    ELSE IF Head(s) = "+" THEN ParseDigits(Tail(s), 0)
    ELSE ParseDigits(s, 0)

\* let port = if port_input.is_empty() { 22 } else { parse().unwrap_or_else(|_| 22) }
PortOf(s) ==
    IF s = <<>> THEN DefaultPort
    ELSE IF ParseU16(s).ok THEN ParseU16(s).val
    ELSE DefaultPort

\* the segments of path s between its "/" separators, cur being the segment
\* under construction and acc the segments already complete
RECURSIVE SplitPath(_, _, _)
SplitPath(s, cur, acc) ==
    IF s = <<>> THEN Append(acc, cur)
    ELSE IF Head(s) = "/" THEN SplitPath(Tail(s), <<>>, Append(acc, cur))
    ELSE SplitPath(Tail(s), Append(cur, Head(s)), acc)

\* the components of a path that Path::components keeps when it is walked
\* from the back: empty segments (repeated or trailing separators, the root)
\* and "." segments are not candidates for the file name
NameCandidates(s) ==
    SelectSeq(SplitPath(s, <<>>, <<>>), LAMBDA seg : seg # <<>> /\ seg # <<".">>)

\* Path::new(&local_file).file_name(): the last component when it is a normal
\* one; None for the root, for "." and for a path that ends in ".."
FileName(s) ==
    LET c == NameCandidates(s)
    IN  IF c = <<>> THEN [some |-> FALSE, name |-> <<>>]
        ELSE IF c[Len(c)] = <<".", ".">> THEN [some |-> FALSE, name |-> <<>>]
        ELSE [some |-> TRUE, name |-> c[Len(c)]]

(* ---- initial state ---------------------------------------------------- *)

Init ==
    /\ pc = "banner"
    /\ ops = <<>>
    /\ local_file = <<>>
    /\ port_input = <<>>
    /\ port = 0
    /\ keyIdx = 0
    /\ authRet = "none"
    /\ file_size = 0
    /\ offset = 0
    /\ bytes_read = 0
    /\ transferred = 0
    /\ position = 0
    /\ finished = FALSE
    /\ result = "none"
    /\ cause = "none"
    /\ exit = "running"
    /\ panic_by = "none"

(* ---- helpers of the actions ------------------------------------------- *)

cfgVars == <<local_file, port_input, port>>

authVars == <<keyIdx, authRet>>

xferVars == <<file_size, offset, bytes_read, transferred, position, finished>>

\* .expect(..) on a failed prompt: the thread panics, the process ends
Panic(e) ==
    /\ ops' = Append(ops, e)
    /\ pc' = "halt"
    /\ exit' = "panic"
    /\ panic_by' = "expect"
    /\ UNCHANGED <<cfgVars, authVars, xferVars, result, cause>>

\* println! cannot write to standard output (a closed pipe, a full device):
\* the macro panics before the next call is made
PrintPanic ==
    /\ pc' = "halt"
    /\ exit' = "panic"
    /\ panic_by' = "println"
    /\ UNCHANGED <<ops, cfgVars, authVars, xferVars, result, cause>>

\* the same after the call e, whose result the message reports; by is the
\* macro: println! for standard output, eprintln! for standard error
PrintPanicAfter(e, by) ==
    /\ ops' = Append(ops, e)
    /\ pc' = "halt"
    /\ exit' = "panic"
    /\ panic_by' = by
    /\ UNCHANGED <<cfgVars, authVars, xferVars, result, cause>>

\* the call e succeeded and the thread moves on to position next
Goto(e, next) ==
    /\ ops' = Append(ops, e)
    /\ pc' = next
    /\ UNCHANGED <<result, cause, exit, panic_by>>

\* the ? operator on an Err inside transfer_file: return Err(c) to main
ReturnErr(e, c) ==
    /\ ops' = Append(ops, e)
    /\ result' = "Err"
    /\ cause' = c
    /\ pc' = "main_match"
    /\ UNCHANGED <<cfgVars, authVars, xferVars, exit, panic_by>>

(* ---- main: the banner -------------------------------------------------- *)

\* lines 21-29: the three lines of the banner, then get_transfer_config
Banner ==
    /\ pc = "banner"
    /\ \/ PrintPanic
       \/ /\ pc' = "prompt_local_file"
          /\ UNCHANGED <<ops, cfgVars, authVars, xferVars, result, cause, exit, panic_by>>

(* ---- get_transfer_config ---------------------------------------------- *)

\* PromptLocalFileFrom printing the error for a missing file without exiting
PromptLocalFileFrom_NoExit(paths) ==
    /\ pc = "prompt_local_file"
    /\ \E p \in paths, r \in {"ok", "missing", "err"} :
          /\ r = "ok" => p # <<>>
          /\ IF r = "err" THEN Panic(Ev("prompt_local_file", 0, 0, "err"))
             ELSE /\ Goto(Ev("prompt_local_file", 0, 0, r), "prompt_remote_host")
                  /\ local_file' = p
                  /\ UNCHANGED <<port_input, port, authVars, xferVars>>

\* lines 51-59: prompt for the local file path, the user typing one of paths;
\* when Path::exists is false (as it is for the empty path, and may be for
\* any other), the message and exit(1), or the panic of a message that
\* cannot be written
PromptLocalFileFrom(paths) ==
    /\ pc = "prompt_local_file"
    /\ \E p \in paths, r \in {"ok", "missing", "err"} :
          /\ r = "ok" => p # <<>>
          /\ IF r = "err" THEN Panic(Ev("prompt_local_file", 0, 0, "err"))
             ELSE IF r = "missing"
             THEN /\ ops' = Append(ops, Ev("prompt_local_file", 0, 0, "missing"))
                  /\ local_file' = p
                  /\ pc' = "halt"
                  /\ \/ exit' = "exit1" /\ panic_by' = panic_by
                     \/ exit' = "panic" /\ panic_by' = "eprintln"
                  /\ UNCHANGED <<port_input, port, authVars, xferVars, result, cause>>
             ELSE /\ Goto(Ev("prompt_local_file", 0, 0, "ok"), "prompt_remote_host")
                  /\ local_file' = p
                  /\ UNCHANGED <<port_input, port, authVars, xferVars>>

\* lines 51-59, with the local paths of the whole-program specification
PromptLocalFile == PromptLocalFileFrom(LocalPaths)

\* lines 62-65: prompt for the remote host
PromptRemoteHost ==
    /\ pc = "prompt_remote_host"
    /\ \E r \in IoOutcomes :
          IF r = "err" THEN Panic(Ev("prompt_remote_host", 0, 0, "err"))
          ELSE /\ Goto(Ev("prompt_remote_host", 0, 0, "ok"), "prompt_port")
               /\ UNCHANGED <<cfgVars, authVars, xferVars>>

\* lines 68-84: prompt for the port and parse it; the user types one of
\* inputs; the message about an input that does not parse may panic
PromptPortFrom(inputs) ==
    /\ pc = "prompt_port"
    /\ \/ Panic(Ev("prompt_port", 0, 0, "err"))
       \/ \E typed \in inputs :
             /\ port_input' = typed
             /\ port' = PortOf(typed)
             /\ Goto(Ev("prompt_port", 0, 0, "ok"), "prompt_username")
             /\ UNCHANGED <<local_file, authVars, xferVars>>
       \/ \E typed \in inputs :
             /\ typed # <<>> /\ ~ParseU16(typed).ok
             /\ port_input' = typed
             /\ ops' = Append(ops, Ev("prompt_port", 0, 0, "ok"))
             /\ pc' = "halt"
             /\ exit' = "panic"
             /\ panic_by' = "eprintln"
             /\ UNCHANGED <<local_file, port, authVars, xferVars, result, cause>>

\* lines 68-84, with the port inputs of the whole-program specification
PromptPort == PromptPortFrom(PortInputs)

\* lines 87-90: prompt for the user name
PromptUsername ==
    /\ pc = "prompt_username"
    /\ \E r \in IoOutcomes :
          IF r = "err" THEN Panic(Ev("prompt_username", 0, 0, "err"))
          ELSE /\ Goto(Ev("prompt_username", 0, 0, "ok"), "prompt_remote_path")
               /\ UNCHANGED <<cfgVars, authVars, xferVars>>

\* lines 93-123: file_name().unwrap() of the local path, which panics when the
\* path has no file name; then the prompt for the remote path, and the
\* TransferConfig is built
PromptRemotePath ==
    /\ pc = "prompt_remote_path"
    /\ IF ~FileName(local_file).some
       THEN /\ pc' = "halt"
            /\ exit' = "panic"
            /\ panic_by' = "unwrap"
            /\ UNCHANGED <<ops, cfgVars, authVars, xferVars, result, cause>>
       ELSE \E r \in IoOutcomes :
               IF r = "err" THEN Panic(Ev("prompt_remote_path", 0, 0, "err"))
               ELSE /\ Goto(Ev("prompt_remote_path", 0, 0, "ok"), "connect")
                    /\ UNCHANGED <<cfgVars, authVars, xferVars>>

(* ---- transfer_file: connection ---------------------------------------- *)

\* lines 126-129: the message of line 126, then TcpStream::connect(host:port)?
Connect ==
    /\ pc = "connect"
    /\ \/ PrintPanic
       \/ \E r \in IoOutcomes :
             IF r = "err" THEN ReturnErr(Ev("connect", 0, port, "err"), "connect")
             ELSE /\ Goto(Ev("connect", 0, port, "ok"), "session_new")
                  /\ UNCHANGED <<cfgVars, authVars, xferVars>>

\* lines 130-131: Session::new()? and set_tcp_stream
SessionNew ==
    /\ pc = "session_new"
    /\ \E r \in IoOutcomes :
          IF r = "err" THEN ReturnErr(Ev("session_new", 0, 0, "err"), "session_new")
          ELSE /\ Goto(Ev("session_new", 0, 0, "ok"), "handshake")
               /\ UNCHANGED <<cfgVars, authVars, xferVars>>

\* line 132: sess.handshake()?, then the call of authenticate
Handshake ==
    /\ pc = "handshake"
    /\ \E r \in IoOutcomes :
          IF r = "err" THEN ReturnErr(Ev("handshake", 0, 0, "err"), "handshake")
          ELSE /\ Goto(Ev("handshake", 0, 0, "ok"), "auth_home")
               /\ UNCHANGED <<cfgVars, authVars, xferVars>>

(* ---- authenticate ----------------------------------------------------- *)

\* authenticate returns Ok(b) to transfer_file
AuthReturn(e, b) ==
    /\ ops' = Append(Append(ops, e), Ev("auth_return", 0, 0, b))
    /\ authRet' = b
    /\ pc' = "auth_check"
    /\ UNCHANGED <<cfgVars, keyIdx, xferVars, result, cause, exit, panic_by>>

\* line 192: std::env::var("HOME"); Err skips the key loop
HomeLookup ==
    /\ pc = "auth_home"
    /\ \E r \in IoOutcomes :
          /\ IF r = "ok"
             THEN keyIdx' = 1 /\ pc' = "key_exists"
             ELSE keyIdx' = keyIdx /\ pc' = "password_prompt"
          /\ ops' = Append(ops, Ev("home", 0, 0, r))
          /\ UNCHANGED <<cfgVars, authRet, xferVars, result, cause, exit, panic_by>>

\* line 199: the position after the body of the for loop for key k: the
\* next key_path, or the password fallback after the last one
AfterKey(k) == IF k >= NumKeys THEN "password_prompt" ELSE "key_exists"

\* KeyExists trying every candidate, whether its file exists or not
KeyExists_NoCheck ==
    /\ pc = "key_exists"
    /\ \E r \in BOOLEAN :
          /\ ops' = Append(ops, Ev("key_exists", keyIdx, 0, IF r THEN "yes" ELSE "no"))
          /\ pc' = "pubkey_nopass"
          /\ keyIdx' = keyIdx
    /\ UNCHANGED <<cfgVars, authRet, xferVars, result, cause, exit, panic_by>>

\* lines 199-200: Path::new(key_path).exists(); a missing key is skipped
KeyExists ==
    /\ pc = "key_exists"
    /\ \E r \in BOOLEAN :
          /\ ops' = Append(ops, Ev("key_exists", keyIdx, 0, IF r THEN "yes" ELSE "no"))
          /\ IF r THEN pc' = "pubkey_nopass" /\ keyIdx' = keyIdx
                  ELSE pc' = AfterKey(keyIdx) /\ keyIdx' = keyIdx + 1
    /\ UNCHANGED <<cfgVars, authRet, xferVars, result, cause, exit, panic_by>>

\* PubkeyNoPassphrase without the return on success
PubkeyNoPassphrase_NoReturn ==
    /\ pc = "pubkey_nopass"
    /\ \E r \in AuthOutcomes :
          /\ Goto(Ev("pubkey_nopass", keyIdx, 0, r), "passphrase_prompt")
          /\ UNCHANGED <<cfgVars, authVars, xferVars>>

\* PubkeyNoPassphrase going on to the next key after a failure, without
\* the attempt with passphrase
PubkeyNoPassphrase_SkipKey ==
    /\ pc = "pubkey_nopass"
    /\ \E r \in AuthOutcomes :
          IF r = "ok"
          THEN AuthReturn(Ev("pubkey_nopass", keyIdx, 0, r), "OkTrue")
          ELSE /\ Goto(Ev("pubkey_nopass", keyIdx, 0, r), AfterKey(keyIdx))
               /\ keyIdx' = keyIdx + 1
               /\ UNCHANGED <<cfgVars, authRet, xferVars>>

\* lines 201-215: the message of line 201, then userauth_pubkey_file without
\* passphrase; only Ok returns, after the message of line 210
PubkeyNoPassphrase ==
    /\ pc = "pubkey_nopass"
    /\ \/ PrintPanic
       \/ PrintPanicAfter(Ev("pubkey_nopass", keyIdx, 0, "ok"), "println")
       \/ \E r \in AuthOutcomes :
             IF r = "ok"
             THEN AuthReturn(Ev("pubkey_nopass", keyIdx, 0, r), "OkTrue")
             ELSE /\ Goto(Ev("pubkey_nopass", keyIdx, 0, r), "passphrase_prompt")
                  /\ UNCHANGED <<cfgVars, authVars, xferVars>>

\* lines 218-222: the message of line 218, then the passphrase prompt
PassphrasePrompt ==
    /\ pc = "passphrase_prompt"
    /\ \/ PrintPanic
       \/ \E r \in IoOutcomes :
             IF r = "err" THEN Panic(Ev("passphrase_prompt", keyIdx, 0, "err"))
             ELSE /\ Goto(Ev("passphrase_prompt", keyIdx, 0, "ok"), "pubkey_pass")
                  /\ UNCHANGED <<cfgVars, authVars, xferVars>>

\* PubkeyPassphrase asking for the passphrase of the same key a second time
\* when the first one was refused
PubkeyPassphrase_Retry ==
    /\ pc = "pubkey_pass"
    /\ \E r \in AuthOutcomes :
          IF r = "ok"
          THEN AuthReturn(Ev("pubkey_pass", keyIdx, 0, r), "OkTrue")
          ELSE IF Cardinality({i \in 1..Len(ops) : ops[i].op = "pubkey_pass"
                                                  /\ ops[i].key = keyIdx}) = 0
          THEN /\ Goto(Ev("pubkey_pass", keyIdx, 0, r), "passphrase_prompt")
               /\ UNCHANGED <<cfgVars, authVars, xferVars>>
          ELSE /\ Goto(Ev("pubkey_pass", keyIdx, 0, r), AfterKey(keyIdx))
               /\ keyIdx' = keyIdx + 1
               /\ UNCHANGED <<cfgVars, authRet, xferVars>>

\* lines 224-236: userauth_pubkey_file with the passphrase; only Ok returns,
\* after the message of line 230; anything else goes on to the next key_path
PubkeyPassphrase ==
    /\ pc = "pubkey_pass"
    /\ \/ PrintPanicAfter(Ev("pubkey_pass", keyIdx, 0, "ok"), "println")
       \/ \E r \in AuthOutcomes :
             IF r = "ok"
             THEN AuthReturn(Ev("pubkey_pass", keyIdx, 0, r), "OkTrue")
             ELSE /\ Goto(Ev("pubkey_pass", keyIdx, 0, r), AfterKey(keyIdx))
                  /\ keyIdx' = keyIdx + 1
                  /\ UNCHANGED <<cfgVars, authRet, xferVars>>

\* lines 241-249: the message of line 241, then the password prompt
PasswordPrompt ==
    /\ pc = "password_prompt"
    /\ \/ PrintPanic
       \/ \E r \in IoOutcomes :
             IF r = "err" THEN Panic(Ev("password_prompt", 0, 0, "err"))
             ELSE /\ Goto(Ev("password_prompt", 0, 0, "ok"), "password_auth")
                  /\ UNCHANGED <<cfgVars, authVars, xferVars>>

\* PasswordAuth asking for the password again after a first refusal
PasswordAuth_Retry ==
    /\ pc = "password_auth"
    /\ \E r \in AuthOutcomes :
          IF r # "ok" /\ Cardinality({i \in 1..Len(ops) : ops[i].op = "password_auth"}) = 0
          THEN /\ Goto(Ev("password_auth", 0, 0, r), "password_prompt")
               /\ UNCHANGED <<cfgVars, authVars, xferVars>>
          ELSE AuthReturn(Ev("password_auth", 0, 0, r),
                          IF r = "ok" THEN "OkTrue" ELSE "OkFalse")

\* lines 251-260: userauth_password; Ok(_) => Ok(true), _ => Ok(false), each
\* after its message (lines 253, 257)
PasswordAuth ==
    /\ pc = "password_auth"
    /\ \E r \in AuthOutcomes :
          \/ PrintPanicAfter(Ev("password_auth", 0, 0, r), "println")
          \/ AuthReturn(Ev("password_auth", 0, 0, r),
                        IF r = "ok" THEN "OkTrue" ELSE "OkFalse")

(* ---- transfer_file: after authenticate -------------------------------- *)

\* CheckAuthenticated without the test of the value authenticate returned
CheckAuthenticated_IgnoreResult ==
    /\ pc = "auth_check"
    /\ pc' = "open_file"
    /\ UNCHANGED <<ops, cfgVars, authVars, xferVars, result, cause, exit, panic_by>>

\* lines 135-137: if !authenticate(..)? { return Err("Authentication failed") }
CheckAuthenticated ==
    /\ pc = "auth_check"
    /\ IF authRet = "OkTrue"
       THEN /\ pc' = "open_file"
            /\ UNCHANGED <<result, cause>>
       ELSE /\ pc' = "main_match"
            /\ result' = "Err"
            /\ cause' = "Authentication failed"
    /\ UNCHANGED <<ops, cfgVars, authVars, xferVars, exit, panic_by>>

\* lines 139-146: the messages of lines 139 and 143, then
\* File::open(&config.local_file)?
OpenLocalFile ==
    /\ pc = "open_file"
    /\ \/ PrintPanic
       \/ \E r \in IoOutcomes :
             IF r = "err" THEN ReturnErr(Ev("open_file", 0, 0, "err"), "open_file")
             ELSE /\ Goto(Ev("open_file", 0, 0, "ok"), "metadata")
                  /\ UNCHANGED <<cfgVars, authVars, xferVars>>

\* lines 147-156: local_file.metadata()?.len() and ProgressBar::new(file_size)
Metadata ==
    /\ pc = "metadata"
    /\ \/ ReturnErr(Ev("metadata", 0, 0, "err"), "metadata")
       \/ \E size \in FileSizes :
             /\ file_size' = size
             /\ position' = 0
             /\ Goto(Ev("metadata", 0, size, "ok"), "scp_send")
             /\ UNCHANGED <<cfgVars, authVars, offset, bytes_read, transferred, finished>>

\* lines 159-163: sess.scp_send(remote_path, 0o644, file_size, None)?,
\* then the buffer and transferred = 0
ScpSend ==
    /\ pc = "scp_send"
    /\ \E r \in IoOutcomes :
          IF r = "err" THEN ReturnErr(Ev("scp_send", 0, file_size, "err"), "scp_send")
          ELSE /\ transferred' = 0
               /\ Goto(Ev("scp_send", 0, file_size, "ok"), "read")
               /\ UNCHANGED <<cfgVars, authVars, file_size, offset, bytes_read,
                              position, finished>>

\* ReadChunk taking a failed read for the end of the file
ReadChunk_ErrAsEof ==
    /\ pc = "read"
    /\ \/ /\ Goto(Ev("read", 0, 0, "err"), "send_eof")
          /\ UNCHANGED <<cfgVars, authVars, xferVars>>
       \/ \E n \in ReadLens \cup {0} :
             /\ offset + n <= MaxBytes
             /\ bytes_read' = n
             /\ offset' = offset + n
             /\ Goto(Ev("read", 0, n, "ok"), IF n = 0 THEN "send_eof" ELSE "write")
             /\ UNCHANGED <<cfgVars, authVars, file_size, transferred, position,
                            finished>>

\* lines 166-169: local_file.read(&mut buffer)?; the read returns an error, 0
\* bytes (which ends the loop) or any number of bytes up to the buffer size,
\* whatever length the metadata declared
ReadChunk ==
    /\ pc = "read"
    /\ \/ ReturnErr(Ev("read", 0, 0, "err"), "read")
       \/ \E n \in ReadLens \cup {0} :
             /\ offset + n <= MaxBytes
             /\ bytes_read' = n
             /\ offset' = offset + n
             /\ Goto(Ev("read", 0, n, "ok"), IF n = 0 THEN "send_eof" ELSE "write")
             /\ UNCHANGED <<cfgVars, authVars, file_size, transferred, position,
                            finished>>

\* lines 171-173: channel.write_all(&buffer[..bytes_read])?, then the
\* counter and the progress bar
WriteChunk ==
    /\ pc = "write"
    /\ \E r \in IoOutcomes :
          IF r = "err" THEN ReturnErr(Ev("write", 0, bytes_read, "err"), "write")
          ELSE /\ transferred' = transferred + bytes_read
               /\ position' = transferred'
               /\ ops' = Append(Append(ops, Ev("write", 0, bytes_read, "ok")),
                                Ev("set_position", 0, transferred', "ok"))
               /\ pc' = "read"
               /\ UNCHANGED <<result, cause, exit, panic_by>>
               /\ UNCHANGED <<cfgVars, authVars, file_size, offset, bytes_read, finished>>

\* ShutdownStep dropping the result of the step instead of returning its Err
ShutdownStep_Swallow(step, next) ==
    /\ pc = step
    /\ \E r \in IoOutcomes :
          /\ Goto(Ev(step, 0, 0, r), next)
          /\ UNCHANGED <<cfgVars, authVars, xferVars>>

\* one step of the shutdown sequence: step()? and on to next
ShutdownStep(step, next) ==
    /\ pc = step
    /\ \E r \in IoOutcomes :
          IF r = "err" THEN ReturnErr(Ev(step, 0, 0, "err"), step)
          ELSE /\ Goto(Ev(step, 0, 0, "ok"), next)
               /\ UNCHANGED <<cfgVars, authVars, xferVars>>

\* line 177: channel.send_eof()?
SendEof == ShutdownStep("send_eof", "wait_eof")

\* line 178: channel.wait_eof()?
WaitEof == ShutdownStep("wait_eof", "close")

\* Close going straight to the end without wait_close
Close_SkipWaitClose ==
    /\ pc = "close"
    /\ \E r \in IoOutcomes :
          IF r = "err" THEN ReturnErr(Ev("close", 0, 0, "err"), "close")
          ELSE /\ Goto(Ev("close", 0, 0, "ok"), "finish")
               /\ UNCHANGED <<cfgVars, authVars, xferVars>>

\* line 179: channel.close()?
Close == ShutdownStep("close", "wait_close")

\* line 180: channel.wait_close()?
WaitClose == ShutdownStep("wait_close", "finish")

\* lines 182-184: progress_bar.finish_with_message(..), which moves the bar to
\* its length, the declared size; Ok(())
Finish ==
    /\ pc = "finish"
    /\ finished' = TRUE
    /\ ops' = Append(ops, Ev("finish", 0, 0, "ok"))
    /\ result' = "Ok"
    /\ pc' = "main_match"
    /\ position' = file_size
    /\ UNCHANGED <<cfgVars, authVars, file_size, offset, bytes_read, transferred,
                   cause, exit, panic_by>>

(* ---- main ------------------------------------------------------------- *)

\* MainMatch without process::exit(1) in the Err arm
MainMatch_NoExit ==
    /\ pc = "main_match"
    /\ pc' = "halt"
    /\ exit' = "exit0"
    /\ panic_by' = panic_by
    /\ ops' = Append(ops, Ev("print", 0, 0, IF result = "Ok" THEN "success" ELSE "failed"))
    /\ UNCHANGED <<cfgVars, authVars, xferVars, result, cause>>

\* lines 32-46: Ok => the success message (exit status 0);
\* Err(e) => the failure message and process::exit(1); a message that cannot
\* be written panics
MainMatch ==
    /\ pc = "main_match"
    /\ \/ /\ pc' = "halt"
          /\ exit' = IF result = "Ok" THEN "exit0" ELSE "exit1"
          /\ panic_by' = panic_by
          /\ ops' = Append(ops, Ev("print", 0, 0,
                                   IF result = "Ok" THEN "success" ELSE "failed"))
          /\ UNCHANGED <<cfgVars, authVars, xferVars, result, cause>>
       \/ PrintPanicAfter(Ev("print", 0, 0, "err"),
                          IF result = "Ok" THEN "println" ELSE "eprintln")

(* ---- specification ---------------------------------------------------- *)

Next ==
    \/ Banner
    \/ PromptLocalFile
    \/ PromptRemoteHost
    \/ PromptPort
    \/ PromptUsername
    \/ PromptRemotePath
    \/ Connect
    \/ SessionNew
    \/ Handshake
    \/ HomeLookup
    \/ KeyExists
    \/ PubkeyNoPassphrase
    \/ PassphrasePrompt
    \/ PubkeyPassphrase
    \/ PasswordPrompt
    \/ PasswordAuth
    \/ CheckAuthenticated
    \/ OpenLocalFile
    \/ Metadata
    \/ ScpSend
    \/ ReadChunk
    \/ WriteChunk
    \/ SendEof
    \/ WaitEof
    \/ Close
    \/ WaitClose
    \/ Finish
    \/ MainMatch

Spec == Init /\ [][Next]_vars

\* every prompt and every call returns: the single thread keeps running
\* until the process has ended
FairSpec == Spec /\ WF_vars(Next)

TypeOK ==
    /\ authRet \in {"none", "OkTrue", "OkFalse"}
    /\ result \in {"none", "Ok", "Err"}
    /\ exit \in {"running", "exit0", "exit1", "panic"}
    /\ panic_by \in {"none", "expect", "unwrap", "println", "eprintln"}
    /\ (exit = "panic") <=> (panic_by # "none")
    /\ keyIdx \in 0..(NumKeys + 1)
    /\ port \in 0..MaxU16
    /\ port_input \in Seq(STRING)
    /\ local_file \in Seq(STRING)
    /\ file_size \in Nat /\ offset \in Nat
    /\ bytes_read \in 0..BufSize
    /\ transferred \in Nat /\ position \in Nat
    /\ finished \in BOOLEAN

(* ---- specification of get_transfer_config ------------------------------ *)

\* lines 68-84, with every port input up to MaxPortLen characters
PromptPortAny == PromptPortFrom(AllPortInputs)

\* the local paths of the specification of get_transfer_config: "/tmp/a"
\* and "/"
PortPaths == { <<"/", "t", "m", "p", "/", "a">>, <<"/">> }

\* lines 51-59, with these paths
PromptLocalFileAny == PromptLocalFileFrom(PortPaths)

\* main up to the end of get_transfer_config: the banner and the five prompts
NextPort ==
    \/ Banner
    \/ PromptLocalFileAny
    \/ PromptRemoteHost
    \/ PromptPortAny
    \/ PromptUsername
    \/ PromptRemotePath

SpecPort == Init /\ [][NextPort]_vars

(* ---- specification of the transfer with short writes ------------------ *)

\* the bytes that the channel has accepted in the calls of h
RECURSIVE SumAccepted(_)
SumAccepted(h) ==
    IF h = <<>> THEN 0
    ELSE (IF Head(h).op = "chan_write" /\ Head(h).res \in {"ok", "short"}
          THEN Head(h).n ELSE 0) + SumAccepted(Tail(h))

\* the calls made since the last read: those of the current write_all
SinceLastRead ==
    LET reads == {i \in 1..Len(ops) : ops[i].op = "read"}
        last == CHOOSE i \in reads : \A j \in reads : j <= i
    IN  IF reads = {} THEN <<>> ELSE SubSeq(ops, last + 1, Len(ops))

\* the part of the current chunk that write_all has still to write
Pending == bytes_read - SumAccepted(SinceLastRead)

\* the lengths a short write may accept of a buffer of n bytes
ShortLens(n) == {1, n \div 2} \cap 1..(n - 1)

\* write_all has returned Ok: lines 172-173, the counter and the progress bar
WriteAllDone(e) ==
    /\ transferred' = transferred + bytes_read
    /\ position' = transferred'
    /\ ops' = Append(Append(Append(ops, e), Ev("write", 0, bytes_read, "ok")),
                     Ev("set_position", 0, transferred', "ok"))
    /\ pc' = "read"
    /\ UNCHANGED <<cfgVars, authVars, file_size, offset, bytes_read, finished,
                   result, cause, exit, panic_by>>

\* WriteAllFailed with the counter and the progress bar advanced before the
\* result of write_all is looked at
WriteAllFailed_Counted(e) ==
    /\ ops' = Append(Append(Append(ops, e), Ev("write", 0, bytes_read, "err")),
                     Ev("set_position", 0, transferred + bytes_read, "ok"))
    /\ transferred' = transferred + bytes_read
    /\ position' = transferred'
    /\ result' = "Err"
    /\ cause' = "write"
    /\ pc' = "main_match"
    /\ UNCHANGED <<cfgVars, authVars, file_size, offset, bytes_read, finished, exit, panic_by>>

\* write_all has returned Err(e): the ? of line 171 returns it
WriteAllFailed(e) ==
    /\ ops' = Append(Append(ops, e), Ev("write", 0, bytes_read, "err"))
    /\ result' = "Err"
    /\ cause' = "write"
    /\ pc' = "main_match"
    /\ UNCHANGED <<cfgVars, authVars, xferVars, exit, panic_by>>

\* ChannelWrite taking a short write for the whole chunk, as a call of
\* write in place of write_all does
ChannelWrite_NoRetry ==
    /\ pc = "write"
    /\ \/ WriteAllFailed(Ev("chan_write", 0, 0, "err"))
       \/ WriteAllDone(Ev("chan_write", 0, Pending, "ok"))
       \/ \E n \in ShortLens(Pending) :
             WriteAllDone(Ev("chan_write", 0, n, "short"))

\* line 171: one call of channel.write made by write_all, which offers the
\* part of the chunk not yet accepted.  Ok(n) with n below what was offered
\* makes write_all offer the rest; Ok(0) makes it return the WriteZero
\* error; Err makes it return that error.
ChannelWrite ==
    /\ pc = "write"
    /\ \/ WriteAllFailed(Ev("chan_write", 0, 0, "err"))
       \/ WriteAllFailed(Ev("chan_write", 0, 0, "zero"))
       \/ WriteAllDone(Ev("chan_write", 0, Pending, "ok"))
       \/ \E n \in ShortLens(Pending) :
             /\ Cardinality({i \in 1..Len(ops) : ops[i].res = "short"}) < MaxShortWrites
             /\ ops' = Append(ops, Ev("chan_write", 0, n, "short"))
             /\ UNCHANGED <<pc, cfgVars, authVars, xferVars, result, cause, exit, panic_by>>

\* transfer_file has connected and authenticated with the password
InitWriteAll ==
    /\ pc = "open_file"
    /\ ops = << Ev("prompt_local_file", 0, 0, "ok"), Ev("prompt_remote_host", 0, 0, "ok"),
                Ev("prompt_port", 0, 0, "ok"), Ev("prompt_username", 0, 0, "ok"),
                Ev("prompt_remote_path", 0, 0, "ok"), Ev("connect", 0, DefaultPort, "ok"),
                Ev("session_new", 0, 0, "ok"), Ev("handshake", 0, 0, "ok"),
                Ev("home", 0, 0, "err"), Ev("password_prompt", 0, 0, "ok"),
                Ev("password_auth", 0, 0, "ok"), Ev("auth_return", 0, 0, "OkTrue") >>
    /\ local_file = <<"/", "t", "m", "p", "/", "a">>
    /\ port_input = <<>>
    /\ port = DefaultPort
    /\ keyIdx = 0
    /\ authRet = "OkTrue"
    /\ file_size = 0
    /\ offset = 0
    /\ bytes_read = 0
    /\ transferred = 0
    /\ position = 0
    /\ finished = FALSE
    /\ result = "none"
    /\ cause = "none"
    /\ exit = "running"
    /\ panic_by = "none"

\* transfer_file from line 146 on, with the calls of channel.write
NextWriteAll ==
    \/ OpenLocalFile
    \/ Metadata
    \/ ScpSend
    \/ ReadChunk
    \/ ChannelWrite
    \/ SendEof
    \/ WaitEof
    \/ Close
    \/ WaitClose
    \/ Finish
    \/ MainMatch

SpecWriteAll == InitWriteAll /\ [][NextWriteAll]_vars

(* ---- reading the history ---------------------------------------------- *)

\* the positions of ops at which operation o was called
At(o) == {i \in 1..Len(ops) : ops[i].op = o}

\* the number of calls of operation o
Count(o) == Cardinality(At(o))

\* the positions at which operation o was called for candidate key k
AtKey(o, k) == {i \in 1..Len(ops) : ops[i].op = o /\ ops[i].key = k}

\* the operations of the transfer proper
TransferOps == {"open_file", "scp_send", "write",
                "send_eof", "wait_eof", "close", "wait_close"}

\* the four shutdown operations
ShutdownOps == {"send_eof", "wait_eof", "close", "wait_close"}

\* the authentication calls and the prompts of authenticate
AuthCalls == {"pubkey_nopass", "pubkey_pass", "password_auth"}

AuthOps == AuthCalls \cup {"key_exists", "passphrase_prompt", "password_prompt"}

\* the sum of the lengths of the chunks written to the channel so far
RECURSIVE SumWritten(_)
SumWritten(h) ==
    IF h = <<>> THEN 0
    ELSE (IF Head(h).op = "write" /\ Head(h).res = "ok" THEN Head(h).n ELSE 0)
         + SumWritten(Tail(h))

\* the call of main that writes the failure message, written or not
FailureMessage(e) == e.op = "print" /\ e.res \in {"failed", "err"}

\* the process has ended after a failure: exit status 1, or the status of the
\* panic of a failure message that could not be written
EndedInFailure ==
    \/ exit = "exit1"
    \/ exit = "panic" /\ panic_by = "eprintln"

\* the read/write loop has ended: a read returned 0 bytes
LoopEnded == \E i \in At("read") : ops[i].res = "ok" /\ ops[i].n = 0

(* ---- C1 --------------------------------------------------------------- *)

\* C1: no transfer operation (open of the local file, scp_send, write,
\* send_eof, wait_eof, close, wait_close) is called before authenticate has
\* returned Ok(true), and once authenticate has returned anything else no
\* transfer operation is ever called.
C1_NoTransferBeforeAuth ==
    LET returns == At("auth_return")
    IN  /\ \A i \in 1..Len(ops) :
              ops[i].op \in TransferOps =>
                 \E j \in returns : j < i /\ ops[j] = Ev("auth_return", 0, 0, "OkTrue")
        /\ (\E j \in returns : ops[j].res # "OkTrue") =>
              \A i \in 1..Len(ops) : ops[i].op \notin TransferOps

\* a run that authenticated, wrote two chunks and closed the channel
C1_Witness ==
    /\ authRet = "OkTrue"
    /\ Count("write") = 2
    /\ Count("wait_close") = 1

(* ---- C2 --------------------------------------------------------------- *)

\* C2: when the read/write loop has ended, the lengths of the chunks
\* written to the channel add up to the size declared to scp_send, which is
\* the size read from the metadata, and the transferred counter equals it.
C2_WrittenEqualsDeclared ==
    LoopEnded =>
       /\ SumWritten(ops) = file_size
       /\ transferred = file_size
       /\ \A i \in At("scp_send") : ops[i].n = file_size
       /\ \A i \in At("write") : ops[i].n <= BufSize

(* ---- C3 --------------------------------------------------------------- *)

\* C3: when transfer_file returns Ok, send_eof, wait_eof, close and
\* wait_close were each called exactly once, in that order, after the last
\* write and before the progress bar was finished.
C3_ShutdownOrder ==
    result = "Ok" =>
       /\ \A o \in ShutdownOps \cup {"finish"} : Count(o) = 1
       /\ \A a \in At("send_eof"), b \in At("wait_eof"), c \in At("close"),
            d \in At("wait_close"), f \in At("finish") :
             /\ a < b /\ b < c /\ c < d /\ d < f
             /\ \A w \in At("write") : w < a

\* a successful transfer of a file of more than one chunk
C3_Witness ==
    /\ result = "Ok"
    /\ Count("write") = 2
    /\ exit = "exit0"

(* ---- C4 --------------------------------------------------------------- *)

\* C4: when a shutdown step fails, transfer_file returns Err carrying that
\* failure, no later shutdown step (nor any other call but the failure
\* message of main) follows, the progress bar is not finished and the run
\* does not end in success, although every byte that was read was written.
C4_ShutdownFailureAborts ==
    \A i \in 1..Len(ops) :
       (ops[i].op \in ShutdownOps /\ ops[i].res = "err") =>
          /\ result = "Err"
          /\ cause = ops[i].op
          /\ \A j \in (i + 1)..Len(ops) : FailureMessage(ops[j])
          /\ ~finished
          /\ Count("finish") = 0
          /\ exit # "exit0"
          /\ (pc = "halt" => EndedInFailure)
          /\ SumWritten(ops) = offset

\* wait_eof failed after a chunk was written, and the process exited with 1
C4_Witness ==
    /\ \E i \in At("wait_eof") : ops[i].res = "err"
    /\ Count("write") >= 1
    /\ exit = "exit1"

(* ---- C5 --------------------------------------------------------------- *)

\* C5: in the transfer loop the transferred counter and the position of the
\* progress bar do not exceed the declared file size, and the positions
\* reported to the progress bar never decrease nor exceed that size.
C5_ProgressMonotoneBounded ==
    /\ pc \in {"read", "write"} =>
          /\ position <= file_size
          /\ transferred <= file_size
    /\ \A i \in At("set_position"), j \in At("set_position") :
          i <= j => ops[i].n <= ops[j].n /\ ops[j].n <= file_size

(* ---- C6 --------------------------------------------------------------- *)

\* C6: once a public-key attempt has succeeded, authenticate returns
\* Ok(true) at once, unless the process ends in the message about it: no
\* further key is tried, no further passphrase or password prompt is issued
\* and no password attempt is made.
C6_FirstKeySuccessWins ==
    \A i \in 1..Len(ops) :
       (ops[i].op \in {"pubkey_nopass", "pubkey_pass"} /\ ops[i].res = "ok") =>
          /\ IF i = Len(ops)
             THEN pc = "halt" /\ panic_by = "println" /\ authRet = "none"
             ELSE authRet = "OkTrue" /\ ops[i + 1] = Ev("auth_return", 0, 0, "OkTrue")
          /\ \A j \in (i + 1)..Len(ops) : ops[j].op \notin AuthOps
          /\ Count("password_prompt") = 0
          /\ Count("password_auth") = 0

\* the first key was accepted with its passphrase while the other two keys
\* were never looked at, and the run went on to the end
C6_Witness ==
    /\ \E i \in AtKey("pubkey_pass", 1) : ops[i].res = "ok"
    /\ Count("key_exists") = 1
    /\ pc = "halt"

(* ---- C7 --------------------------------------------------------------- *)

\* authenticate is done with candidate key k: it went on to a later
\* candidate or to the password, or returned while working on k
DoneWithKey(k) == keyIdx > k \/ (keyIdx = k /\ authRet # "none")

\* C7: for every candidate key that exists, a failed attempt without
\* passphrase is followed by exactly one passphrase prompt and exactly one
\* attempt with passphrase for that key before the next candidate, and a
\* successful attempt without passphrase by no passphrase prompt.
C7_OnePassphrasePromptPerKey ==
    \A k \in 1..NumKeys :
       LET nopass  == AtKey("pubkey_nopass", k)
           prompts == AtKey("passphrase_prompt", k)
           pass    == AtKey("pubkey_pass", k)
       IN  /\ Cardinality(nopass) <= 1
           /\ Cardinality(prompts) <= 1
           /\ Cardinality(pass) <= 1
           /\ \A e \in AtKey("key_exists", k) :
                 (ops[e].res = "yes" /\ DoneWithKey(k)) => Cardinality(nopass) = 1
           /\ \A i \in nopass :
                 /\ ops[i].res = "ok" =>
                       /\ prompts = {}
                       /\ pass = {}
                 /\ (ops[i].res # "ok" /\ DoneWithKey(k)) =>
                       /\ prompts = {i + 1}
                       /\ pass = {i + 2}

\* the first two keys exist and were both refused without and with their
\* passphrase, and authenticate has reached the third candidate
C7_Witness ==
    /\ keyIdx = 3
    /\ \A k \in {1, 2} :
          /\ \E i \in AtKey("pubkey_nopass", k) : ops[i].res # "ok"
          /\ \E i \in AtKey("pubkey_pass", k) : ops[i].res # "ok"

(* ---- C8 --------------------------------------------------------------- *)

\* the home directory was not resolved, or none of the candidate keys exists
NoKeyFiles ==
    \/ \E i \in At("home") : ops[i].res = "err"
    \/ \A k \in 1..NumKeys : \E i \in AtKey("key_exists", k) : ops[i].res = "no"

\* the authentication calls and prompts made so far, in order
AuthActions ==
    SelectSeq(ops, LAMBDA e : e.op \in AuthCalls \cup {"passphrase_prompt", "password_prompt"})

\* C8: when the home directory is not resolved or no candidate key exists,
\* authenticate makes no public-key attempt and no passphrase prompt: it
\* goes on, without an error, to the password prompt and then the password
\* attempt, whose result alone decides what authenticate returns.
C8_NoKeysGoesToPassword ==
    NoKeyFiles =>
       /\ Count("pubkey_nopass") = 0
       /\ Count("pubkey_pass") = 0
       /\ Count("passphrase_prompt") = 0
       /\ Len(AuthActions) <= 2
       /\ Len(AuthActions) = 0 =>
             /\ result = "none"
             /\ \/ pc = "password_prompt" /\ exit = "running"
                \/ pc = "halt" /\ panic_by = "println"
       /\ Len(AuthActions) >= 1 => AuthActions[1].op = "password_prompt"
       /\ Len(AuthActions) = 2 =>
             /\ AuthActions[2].op = "password_auth"
             /\ authRet # "none" =>
                   authRet = IF AuthActions[2].res = "ok" THEN "OkTrue" ELSE "OkFalse"
             /\ authRet = "none" => pc = "halt" /\ panic_by = "println"

\* none of the three keys exists and the password was accepted
C8_Witness ==
    /\ \A k \in 1..NumKeys : \E i \in AtKey("key_exists", k) : ops[i].res = "no"
    /\ \E i \in At("password_auth") : ops[i].res = "ok"
    /\ authRet = "OkTrue"

(* ---- C9 --------------------------------------------------------------- *)

\* no public-key attempt succeeded
NoKeySucceeded ==
    \A i \in At("pubkey_nopass") \cup At("pubkey_pass") : ops[i].res # "ok"

\* C9: when authenticate returns and no key was accepted, it has prompted
\* for the password once and attempted password authentication once, as
\* its last actions; when that attempt failed it returned the
\* authentication failure, and the run ends in failure without any
\* transfer operation.
C9_SinglePasswordAttempt ==
    /\ Count("password_prompt") <= 1
    /\ Count("password_auth") <= 1
    /\ (authRet # "none" /\ NoKeySucceeded) =>
          /\ Count("password_prompt") = 1
          /\ Count("password_auth") = 1
          /\ \A i \in At("password_auth") :
                /\ ops[i - 1].op = "password_prompt"
                /\ ops[i + 1].op = "auth_return"
                /\ \A j \in (i + 1)..Len(ops) : ops[j].op \notin AuthOps
                /\ ops[i].res # "ok" =>
                      /\ authRet = "OkFalse"
                      /\ \A j \in 1..Len(ops) : ops[j].op \notin TransferOps
                      /\ result # "Ok"
                      /\ result = "Err" => cause = "Authentication failed"
                      /\ pc \in {"auth_check", "main_match", "halt"}
                      /\ pc = "halt" => EndedInFailure

\* two keys were refused, then the password was refused, and the process
\* exited with status 1
C9_Witness ==
    /\ \E i \in At("password_auth") : ops[i].res = "rejected"
    /\ Count("pubkey_pass") = 2
    /\ exit = "exit1"

(* ---- C10 -------------------------------------------------------------- *)

\* C10: a transport-level error of an authentication call ends
\* authenticate with an error: no prompt and no authentication call
\* follows it, authenticate returns neither Ok(true) nor Ok(false), and
\* the error that transfer_file returns is the one of that call.
C10_TransportErrorPropagates ==
    \A i \in 1..Len(ops) :
       (ops[i].op \in AuthCalls /\ ops[i].res = "transport_error") =>
          /\ \A j \in (i + 1)..Len(ops) : ops[j].op \notin AuthOps \cup {"auth_return"}
          /\ authRet = "none"
          /\ result = "Err" => cause = ops[i].op

(* ---- C11 -------------------------------------------------------------- *)

\* the metadata of the local file gave a size of 0 bytes
EmptyFile == \E i \in At("metadata") : ops[i].res = "ok" /\ ops[i].n = 0

\* C11: for an empty local file no chunk is ever written; the channel is
\* still opened, with declared size 0; the first read ends the loop, and a
\* transfer that returns Ok has opened the channel, read once, made the
\* four shutdown steps and finished the progress bar.
C11_EmptyFile ==
    EmptyFile =>
       /\ Count("write") = 0
       /\ Count("set_position") = 0
       /\ Count("read") <= 1
       /\ \A i \in At("scp_send") : ops[i].n = 0
       /\ \A i \in At("read") :
             ops[i].res = "ok" => ops[i].n = 0 /\ pc # "write"
       /\ pc \in {"send_eof", "wait_eof", "close", "wait_close", "finish"} =>
             /\ Count("scp_send") = 1
             /\ LoopEnded
       /\ result = "Ok" =>
             /\ \E i \in At("scp_send") : ops[i].res = "ok"
             /\ \A o \in ShutdownOps : \E i \in At(o) : ops[i].res = "ok"
             /\ finished
       /\ finished => result = "Ok"

(* ---- C12 -------------------------------------------------------------- *)

\* the chunks written with success and the positions reported, in order
Writes == SelectSeq(ops, LAMBDA e : e.op = "write" /\ e.res = "ok")

Reports == SelectSeq(ops, LAMBDA e : e.op = "set_position")

\* ceil(S / 8192)
NumChunks(S) == (S + BufSize - 1) \div BufSize

\* the length of the i-th chunk of a file of S bytes cut every 8192 bytes
ChunkLen(S, i) == IF i * BufSize <= S THEN BufSize ELSE S - (i - 1) * BufSize

\* the bytes of a file of S bytes that lie in its first i chunks
RunningSum(S, i) == IF i * BufSize <= S THEN i * BufSize ELSE S

\* C12: a file of S bytes is written in ceil(S/8192) chunks, in file
\* order, each of 8192 bytes except a last one of S mod 8192 bytes when
\* that is not zero, and every write is followed by one report of the
\* running sum to the progress bar; for S = 20000 the writes are 8192,
\* 8192, 3616 and the reports 8192, 16384, 20000.
C12_ChunksAndProgress ==
    (\E i \in At("metadata") : ops[i].res = "ok") =>
       /\ Len(Writes) <= NumChunks(file_size)
       /\ \A i \in 1..Len(Writes) :
             /\ Writes[i].n = ChunkLen(file_size, i)
             /\ Writes[i].n > 0
       /\ Len(Reports) = Len(Writes)
       /\ \A i \in 1..Len(Reports) : Reports[i].n = RunningSum(file_size, i)
       /\ \A j \in At("set_position") :
             ops[j - 1].op = "write" /\ ops[j - 1].res = "ok"
       /\ pc = "write" => offset - bytes_read = SumWritten(ops)
       /\ LoopEnded => Len(Writes) = NumChunks(file_size)
       /\ (LoopEnded /\ file_size = 20000) =>
             /\ [i \in 1..Len(Writes) |-> Writes[i].n] = <<8192, 8192, 3616>>
             /\ [i \in 1..Len(Reports) |-> Reports[i].n] = <<8192, 16384, 20000>>

(* ---- C13 -------------------------------------------------------------- *)

\* the unwrap of the file name of a local path that has none panicked,
\* after the prompt for the username
NamelessPanic ==
    /\ panic_by = "unwrap"
    /\ Len(ops) > 0
    /\ ~FileName(local_file).some
    /\ ops[Len(ops)] = Ev("prompt_username", 0, 0, "ok")

\* some call other than an authentication attempt or the lookup of the home
\* directory failed (a failed prompt or message included), the local file was
\* missing, authenticate returned Ok(false), or the process panicked
RunFailed ==
    \/ \E i \in 1..Len(ops) : ops[i].op # "home" /\ ops[i].res \in {"err", "missing"}
    \/ authRet = "OkFalse"
    \/ panic_by # "none"

\* operation o was called exactly once, with success
OkOnce(o) == Count(o) = 1 /\ \A i \in At(o) : ops[i].res = "ok"

\* connect, handshake, authentication, every write and the shutdown succeeded
AllSucceeded ==
    /\ \A o \in {"connect", "session_new", "handshake", "open_file", "metadata",
                 "scp_send"} \cup ShutdownOps : OkOnce(o)
    /\ authRet = "OkTrue"
    /\ \A i \in At("write") : ops[i].res = "ok"
    /\ SumWritten(ops) = offset

\* an error was written to standard error: the failure message of main or
\* the message about the missing file before exit(1), or the message of a
\* panic that did not come from standard error itself
ErrorPrinted ==
    \/ /\ exit = "exit1"
       /\ \/ ops[Len(ops)] = Ev("print", 0, 0, "failed")
          \/ ops[Len(ops)] = Ev("prompt_local_file", 0, 0, "missing")
    \/ /\ panic_by = "expect"
       /\ ops[Len(ops)].res = "err"
    \/ NamelessPanic
    \/ panic_by = "println"

\* the success message is printed and the exit status is 0 only when
\* everything succeeded, and a run that ends otherwise ends with a status
\* other than 0 and without the success message
SuccessOrFailure ==
    /\ (pc = "halt") <=> (exit # "running")
    /\ Count("print") <= 1
    /\ Count("print") = 1 => pc = "halt" /\ At("print") = {Len(ops)}
    /\ exit = "exit0" =>
          /\ ops[Len(ops)] = Ev("print", 0, 0, "success")
          /\ result = "Ok"
          /\ AllSucceeded
          /\ ~RunFailed
    /\ (pc = "halt" /\ RunFailed) =>
          /\ exit \in {"exit1", "panic"}
          /\ \A i \in At("print") : ops[i].res \in {"failed", "err"}
    /\ (pc = "halt" /\ ~RunFailed) => exit = "exit0"

\* C13 as claimed: a run ends in one of two ways.  The success message is
\* printed and the exit status is 0 only when connect, handshake,
\* authentication, every write and the four shutdown steps succeeded; after
\* any failure an error is printed and the exit status is not 0.
C13_TwoOutcomes ==
    /\ SuccessOrFailure
    /\ (pc = "halt" /\ RunFailed) => ErrorPrinted

\* C13 as amended: the same, but the error is printed only when standard
\* error takes it: when eprintln! cannot write (the failure message of main,
\* the message about the missing file or about the port) the process panics
\* and ends, with a status other than 0, without any message.
C13_TwoOutcomesUnlessStderrFails ==
    /\ SuccessOrFailure
    /\ (pc = "halt" /\ RunFailed) => ErrorPrinted \/ panic_by = "eprintln"
    /\ panic_by = "eprintln" =>
          \/ ops[Len(ops)] = Ev("print", 0, 0, "err") /\ result = "Err"
          \/ ops[Len(ops)] = Ev("prompt_local_file", 0, 0, "missing")
          \/ ops[Len(ops)] = Ev("prompt_port", 0, 0, "ok") /\ ~ParseU16(port_input).ok

\* a run that ended with exit status 1 because close failed after two writes
C13_Witness ==
    /\ exit = "exit1"
    /\ cause = "close"
    /\ Count("write") = 2
    /\ ops[Len(ops)] = Ev("print", 0, 0, "failed")

(* ---- C14 -------------------------------------------------------------- *)

\* C14: when the local file does not exist the process ends with a status
\* other than 0 (1, or that of the panic of a message that cannot be written)
\* right after the first prompt: no other input is requested, no
\* connection is opened, no authentication and no transfer is attempted.
C14_MissingFileExitsAtOnce ==
    (\E i \in At("prompt_local_file") : ops[i].res = "missing") =>
       /\ ops = <<Ev("prompt_local_file", 0, 0, "missing")>>
       /\ pc = "halt"
       /\ EndedInFailure
       /\ result = "none"
       /\ authRet = "none"
       /\ port_input = <<>> /\ port = 0

\* the local file was missing and the process has exited with status 1
C14_Witness ==
    /\ Len(ops) = 1
    /\ ops[1].op = "prompt_local_file"
    /\ ops[1].res = "missing"
    /\ exit = "exit1"

(* ---- C15 -------------------------------------------------------------- *)

\* the value of a decimal digit
DigitValue ==
    ("0" :> 0) @@ ("1" :> 1) @@ ("2" :> 2) @@ ("3" :> 3) @@ ("4" :> 4) @@
    ("5" :> 5) @@ ("6" :> 6) @@ ("7" :> 7) @@ ("8" :> 8) @@ ("9" :> 9)

RECURSIVE Pow10(_)
Pow10(n) == IF n = 0 THEN 1 ELSE 10 * Pow10(n - 1)

\* the digits of an input: the input without one leading plus sign
DigitsOf(s) == IF s # <<>> /\ Head(s) = "+" THEN Tail(s) ELSE s

\* the input is a decimal number: one or more digits after an optional plus
IsNumeric(s) ==
    /\ DigitsOf(s) # <<>>
    /\ \A i \in 1..Len(DigitsOf(s)) : DigitsOf(s)[i] \in DOMAIN DigitValue

\* the number a numeric input denotes
RECURSIVE DecimalSum(_, _)
DecimalSum(d, i) ==
    IF i > Len(d) THEN 0
    ELSE DigitValue[d[i]] * Pow10(Len(d) - i) + DecimalSum(d, i + 1)

NumberOf(s) == DecimalSum(DigitsOf(s), 1)

\* C15 as claimed: once the port prompt has returned, the port is 22 for an
\* empty input, for every input that is not a decimal number and for every
\* number above 65535; it is the number typed for every decimal number up to
\* 65535; and an invalid port is never fatal: the run goes on to the next
\* prompt whatever was typed.  (The warning about an invalid port is written
\* with eprintln!, which panics when standard error cannot be written.)
C15_PortSelection ==
    (\E i \in At("prompt_port") : ops[i].res = "ok") =>
       /\ port_input = <<>> => port = DefaultPort
       /\ ~IsNumeric(port_input) => port = DefaultPort
       /\ (IsNumeric(port_input) /\ NumberOf(port_input) <= MaxU16) =>
             port = NumberOf(port_input)
       /\ (IsNumeric(port_input) /\ NumberOf(port_input) > MaxU16) =>
             port = DefaultPort
       /\ port \in 0..MaxU16
       /\ ops[Len(ops)].op = "prompt_port" =>
             pc = "prompt_username" /\ exit = "running"

(* ---- C16 -------------------------------------------------------------- *)

\* C16 as claimed: a short write of the channel is an error that ends the
\* transfer, and no write follows it.
C16_ShortWriteIsError ==
    \A i \in At("chan_write") :
       ops[i].res = "short" =>
          /\ result = "Err"
          /\ \A j \in (i + 1)..Len(ops) : ops[j].op \notin {"chan_write", "read"}

\* C16 as amended: every non-empty read is written to the channel in full
\* before the next read; a short write is followed by a write of the rest
\* of the chunk, and write_all fails only when a call of write returns an
\* error or accepts no byte, after which nothing more is read or written.
C16_WrittenInFullBeforeNextRead ==
    /\ \A i \in At("read"), j \in At("read") :
          (i < j /\ \A k \in (i + 1)..(j - 1) : ops[k].op # "read") =>
             /\ ops[i].res = "ok" /\ ops[i].n > 0
             /\ SumAccepted(SubSeq(ops, i + 1, j - 1)) = ops[i].n
    /\ pc = "write" => Pending > 0 /\ Pending <= bytes_read
    /\ \A i \in At("chan_write") :
          /\ ops[i].res = "short" =>
                IF i = Len(ops)
                THEN pc = "write" /\ result = "none" /\ exit = "running"
                ELSE ops[i + 1].op = "chan_write"
          /\ ops[i].res \in {"err", "zero"} =>
                /\ ops[i + 1] = Ev("write", 0, bytes_read, "err")
                /\ result = "Err" /\ cause = "write"
                /\ \A j \in (i + 2)..Len(ops) : FailureMessage(ops[j])
    /\ \A i \in At("write") :
          ops[i].res = "err" => ops[i - 1].res \in {"err", "zero"}

\* a chunk went through after two short writes, and the next chunk was read
C16_Witness ==
    \E i \in At("chan_write"), j \in At("read") :
       /\ i + 1 < j
       /\ ops[i].res = "short"
       /\ ops[i + 1].res = "short"
       /\ ops[j].n > 0

(* ---- C17 -------------------------------------------------------------- *)

\* the existence checks made so far, in order
KeyChecks == SelectSeq(ops, LAMBDA e : e.op = "key_exists")

\* the calls and prompts that use a candidate key
KeyOps == {"pubkey_nopass", "passphrase_prompt", "pubkey_pass"}

\* C17: the candidates are looked at in the order id_rsa, id_ed25519,
\* id_ecdsa; a key is used only if it exists and after every earlier
\* candidate was looked at and, when it exists, refused both without and
\* with passphrase; a candidate that does not exist gets no attempt and no
\* prompt.
C17_KeyOrder ==
    LET checks == KeyChecks
    IN  /\ Len(checks) <= NumKeys
        /\ [i \in 1..Len(checks) |-> KeyNames[checks[i].key]]
              = SubSeq(KeyNames, 1, Len(checks))
        /\ \A i \in 1..Len(ops) : ops[i].op \in KeyOps => ops[i].key \in 1..NumKeys
        /\ \A k \in 1..NumKeys :
              LET exists == AtKey("key_exists", k)
                  nopass == AtKey("pubkey_nopass", k)
                  pass   == AtKey("pubkey_pass", k)
              IN  /\ \A i \in 1..Len(ops) :
                        ops[i].op \in KeyOps =>
                           /\ ops[i].key = k =>
                                 \E e \in exists : e < i /\ ops[e].res = "yes"
                           /\ ops[i].key > k =>
                                 \E e \in exists :
                                    /\ e < i
                                    /\ ops[e].res = "yes" =>
                                          \E a \in nopass, b \in pass :
                                             /\ e < a /\ a < b /\ b < i
                                             /\ ops[a].res # "ok"
                                             /\ ops[b].res # "ok"
                  /\ \A e \in exists :
                        ops[e].res = "no" =>
                           /\ nopass = {} /\ pass = {}
                           /\ AtKey("passphrase_prompt", k) = {}
                           /\ e < Len(ops) =>
                                 ops[e + 1].op \in {"key_exists", "password_prompt"}

\* id_rsa is missing, id_ed25519 was refused without and with passphrase,
\* and id_ecdsa is being tried
C17_Witness ==
    /\ \E e \in AtKey("key_exists", 1) : ops[e].res = "no"
    /\ \E b \in AtKey("pubkey_pass", 2) : ops[b].res = "rejected"
    /\ AtKey("pubkey_nopass", 3) # {}

(* ---- C18 -------------------------------------------------------------- *)

\* C18: when a read of the local file or a write to the channel fails,
\* transfer_file returns that error at once: nothing is read or written
\* after it, no shutdown step is called and the progress bar is not
\* finished.
C18_LoopFailureAborts ==
    \A i \in 1..Len(ops) :
       (ops[i].op \in {"read", "write"} /\ ops[i].res = "err") =>
          /\ result = "Err"
          /\ cause = ops[i].op
          /\ \A j \in (i + 1)..Len(ops) : FailureMessage(ops[j])
          /\ \A o \in ShutdownOps \cup {"finish"} : Count(o) = 0
          /\ ~finished
          /\ exit # "exit0"
          /\ (pc = "halt" => EndedInFailure)
          /\ pc \in {"main_match", "halt"}

\* the second read failed after one chunk was written; the process exited
C18_Witness ==
    /\ \E i \in At("read") : ops[i].res = "err"
    /\ Count("write") = 1
    /\ exit = "exit1"

(* ---- C19 -------------------------------------------------------------- *)

\* C19: until the transfer has finished, the position of the progress bar
\* is the transferred counter, which is the last value reported and equals
\* the bytes of the chunks whose write has succeeded: it is never more than
\* the channel has accepted, and the chunk that was read and is still being
\* written is not part of it.
C19_ProgressEqualsWritten ==
    /\ transferred = SumWritten(ops)
    /\ transferred <= SumAccepted(ops)
    /\ SumAccepted(ops) <= offset
    /\ ~finished =>
          /\ position = transferred
          /\ pc = "write" => position = offset - bytes_read
    /\ Reports # <<>> => Reports[Len(Reports)].n = transferred

\* the second chunk has been read and partly accepted by the channel, and
\* the progress bar still shows the first chunk only
C19_Witness ==
    /\ pc = "write"
    /\ position = BufSize
    /\ offset > BufSize
    /\ SumAccepted(ops) > position

(* ---- C20 -------------------------------------------------------------- *)

\* the number of calls made so far keeps within the bounds of the program
CallsBounded ==
    /\ Count("pubkey_nopass") + Count("pubkey_pass") <= 2 * NumKeys
    /\ Count("passphrase_prompt") <= NumKeys
    /\ Count("password_prompt") <= 1
    /\ Count("password_auth") <= 1
    /\ Count("read") <= MaxBytes + 1
    /\ offset <= MaxBytes
    /\ Count("write") <= Count("read")

\* the process has ended, with success or with a failure
RunEnded == pc = "halt" /\ exit \in {"exit0", "exit1", "panic"}

\* C20: when every prompt and call returns, authenticate makes at most 6
\* public-key attempts, 3 passphrase prompts, 1 password prompt and 1
\* password attempt, the loop over a file that gives at most MaxBytes bytes
\* reads at most once per byte and once more and writes at most once per
\* read, and every run ends with success or with a failure.
C20_Terminates == []CallsBounded /\ <>RunEnded

\* a run that made all six key attempts, three passphrase prompts and the
\* password attempt, transferred two chunks and ended
C20_Witness ==
    /\ Count("pubkey_nopass") + Count("pubkey_pass") = 6
    /\ Count("passphrase_prompt") = 3
    /\ Count("password_auth") = 1
    /\ Count("write") = 2
    /\ Count("read") = 3
    /\ pc = "halt"

====
